---- MODULE Spec2Model ----
(***************************************************************************)
(* Model of generate_preview_and_json.py: process_psd_file opens a PSD     *)
(* document, walks its layer tree with export_layer, extracts one preview  *)
(* per non-group layer, counts the emitted records and writes              *)
(* layer_structure.json.                                                   *)
(*                                                                         *)
(* The document and the behaviour of the psd_tools / PIL calls made on it  *)
(* are the input: they are fixed in the initial state (variable doc) and   *)
(* the program then runs deterministically over them.                      *)
(***************************************************************************)
EXTENDS Integers, Sequences, FiniteSets, TLC

VARIABLES doc, pc, result, psd, stack, layer_json, previews, summary, written

vars == <<doc, pc, result, psd, stack, layer_json, previews, summary, written>>

(* Largest number of layers in a document. *)
MaxLayers == 3

----------------------------------------------------------------------------
(* Python values *)

(* None for an image (line 240). *)
NoImage == [mode |-> "none", non_transparent_pixels |-> 0, color_std |-> 0, unique_colors |-> 0]

(* None for image_analysis (line 234). *)
NoAnalysis == [none |-> TRUE]

(* None for preview_filename (line 232); a real filename is never empty. *)
NoFilename == <<>>

(* Images a layer can hold, by the quantities analyze_image_content reads. *)
Images ==
  { [mode |-> "RGBA", non_transparent_pixels |-> 1, color_std |-> 2, unique_colors |-> 2],
    [mode |-> "RGBA", non_transparent_pixels |-> 0, color_std |-> 0, unique_colors |-> 1],
    [mode |-> "RGB",  non_transparent_pixels |-> 0, color_std |-> 0, unique_colors |-> 1],
    [mode |-> "RGB",  non_transparent_pixels |-> 0, color_std |-> 2, unique_colors |-> 2] }

ContentImage == [mode |-> "RGBA", non_transparent_pixels |-> 1, color_std |-> 2, unique_colors |-> 2]

(* Layer names, as sequences of characters. *)
NameSpace == <<"a", " ", "b">>
NameUnder == <<"a", "_", "b">>
NameSlash == <<"a", "/", "b">>
Names == {NameSpace, NameUnder, NameSlash}

Digits == <<"1", "2", "3", "4", "5", "6", "7", "8", "9">>

(* A name that no other layer of the document has. *)
OwnName(i) == <<"L", Digits[i]>>

----------------------------------------------------------------------------
(* The input: a document and what the library calls on each layer yield *)

(* A pixel layer on which every call succeeds at the first attempt. *)
PlainLayer(i) ==
  [ is_group |-> FALSE, layer_id |-> i, name |-> OwnName(i), kind |-> "pixel",
    text |-> "absent", blocks |-> <<>>, text_data |-> "absent",
    engine_dict |-> "absent", StyleRun |-> "absent", ParagraphRun |-> "absent",
    Transform |-> "absent",
    has_pixels |-> "true", topil |-> "image", composite |-> "none",
    forced |-> "none", image |-> ContentImage, analyze |-> "ok", save |-> "ok" ]

(* A group layer: none of the extraction calls is made on it. *)
GroupLayer(i) ==
  [PlainLayer(i) EXCEPT !.is_group = TRUE, !.kind = "group",
                        !.has_pixels = "false", !.topil = "none"]

(* What analysis and saving do once an image was extracted. *)
AfterImage == { <<im, a, s>> \in Images \X {"ok", "raise"} \X {"ok", "raise"} :
                  ~(a = "raise" /\ s = "raise") }

(* The results of the extraction calls of one layer.  A call the code       *)
(* cannot reach for the given earlier results is not varied.                *)
ExtractionEnvs ==
  LET Calls == { c \in [ topil : {"none", "raise", "image"},
                         has_pixels : {"true", "false", "raise"},
                         composite : {"none", "raise", "image"},
                         forced : {"none", "raise", "image"} ] :
                   /\ (c.topil = "image") => (c.has_pixels # "raise" /\ c.composite = "none" /\ c.forced = "none")
                   /\ (c.has_pixels # "true") => (c.composite = "none")
                   /\ (c.has_pixels = "raise") => (c.forced = "none")
                   /\ (c.composite = "image") => (c.forced = "none") }
      Yields(c) == "image" \in {c.topil, c.composite, c.forced}
  IN  { [c |-> c, after |-> a] : c \in {x \in Calls : Yields(x)}, a \in AfterImage }
      \cup { [c |-> c, after |-> <<ContentImage, "ok", "ok">>] : c \in {x \in Calls : ~Yields(x)} }

ExtractionLayer(i, e) ==
  [PlainLayer(i) EXCEPT !.has_pixels = e.c.has_pixels, !.topil = e.c.topil,
                        !.composite = e.c.composite, !.forced = e.c.forced,
                        !.image = e.after[1], !.analyze = e.after[2], !.save = e.after[3]]

(* The text data of one text layer.  Data behind a failing read is not      *)
(* varied.                                                                  *)
BlockLists == { <<>>, <<"TySh">>, <<"tySh", "other">>, <<"TySh", "raise", "tySh">>, <<"raise", "TySh">> }

TextEnvs ==
  { t \in [ text : {"value", "raise"}, blocks : BlockLists,
            text_data : {"absent", "present", "raise"},
            engine_dict : {"absent", "dict", "raise"},
            StyleRun : {"absent", "ok", "raise"},
            ParagraphRun : {"absent", "ok", "raise"},
            Transform : {"absent", "ok", "raise"} ] :
      /\ (t.text = "raise") => (t.blocks = <<>> /\ t.text_data = "absent")
      /\ (t.text_data = "raise") => (t.engine_dict = "absent")
      /\ (t.engine_dict # "dict") => (t.StyleRun = "absent")
      /\ (t.StyleRun # "ok") => (t.ParagraphRun = "absent")
      /\ (t.ParagraphRun # "ok") => (t.Transform = "absent") }

TextLayer(i, t) ==
  [PlainLayer(i) EXCEPT !.kind = "type", !.text = t.text, !.blocks = t.blocks,
                        !.text_data = t.text_data, !.engine_dict = t.engine_dict,
                        !.StyleRun = t.StyleRun, !.ParagraphRun = t.ParagraphRun,
                        !.Transform = t.Transform]

(* Tree shapes: parent[i] is the group holding layer i, 0 for the document. *)
(* Siblings are iterated in increasing index.                               *)
Parents(n) == { p \in [1..n -> 0..n] : \A i \in 1..n : p[i] < i }

IsParent(p, n, i) == \E j \in 1..n : p[j] = i

Document(n, p, ls) ==
  [ n |-> n, parent |-> p, layer |-> ls, exists |-> TRUE, open |-> "ok", open_force |-> "ok" ]

(* Documents in which one non-group layer has arbitrary extraction results  *)
(* or arbitrary text data, inside every tree of plain layers.               *)
FaultDocs ==
  UNION { UNION { UNION {
    { Document(n, p, [i \in 1..n |-> IF i = s THEN l
                                     ELSE IF IsParent(p, n, i) THEN GroupLayer(i)
                                     ELSE PlainLayer(i)])
        : l \in { ExtractionLayer(s, e) : e \in ExtractionEnvs }
             \cup { TextLayer(s, t) : t \in TextEnvs } }
    : s \in { i \in 1..n : ~IsParent(p, n, i) } }
    : p \in Parents(n) }
    : n \in 1..MaxLayers }

(* Documents of every tree shape, with empty groups and arbitrary names.    *)
TreeDocs ==
  UNION { UNION { UNION {
    { Document(n, p, [i \in 1..n |-> [(IF i \in g THEN GroupLayer(i) ELSE PlainLayer(i))
                                        EXCEPT !.name = nm[i]]])
        : nm \in [1..n -> Names] }
    : g \in { x \in SUBSET (1..n) : \A i \in 1..n : IsParent(p, n, i) => i \in x } }
    : p \in Parents(n) }
    : n \in 0..MaxLayers }

(* Documents of every tree shape whose file is missing or whose opening    *)
(* fails in each of the ways lines 36-56 tell apart.                        *)
OpenDocs ==
  UNION { UNION {
    { [ Document(n, p, [i \in 1..n |-> IF IsParent(p, n, i) THEN GroupLayer(i)
                                       ELSE PlainLayer(i)])
          EXCEPT !.exists = x, !.open = o, !.open_force = f ]
        : x \in BOOLEAN,
          o \in {"ok", "color_mode", "value_error", "other_error"},
          f \in {"ok", "raise"} }
    : p \in Parents(n) }
    : n \in 0..MaxLayers }

----------------------------------------------------------------------------
(* Helpers for Python dicts, strings and lists *)

(* dict.get(key, default) *)
Get(d, key, default) == IF key \in DOMAIN d THEN d[key] ELSE default

(* "word in status": a status is kept as its underscore-separated words;    *)
(* for the words tested ("success", "empty") and the statuses the program   *)
(* builds, substring search and word membership agree.                      *)
Contains(status, word) == \E i \in 1..Len(status) : status[i] = word

(* str.replace(old, new) for one-character old and new *)
Replace(str, old, new) == [i \in 1..Len(str) |-> IF str[i] = old THEN new ELSE str[i]]

(* The children of layer i in iteration order (i = 0: the document). *)
ChildrenOf(d, i) == SelectSeq([k \in 1..d.n |-> k], LAMBDA k : d.parent[k] = i)

----------------------------------------------------------------------------
(* analyze_image_content, on the quantities it computes from the pixels *)

analyze_image_content(image) ==
  IF image = NoImage
  THEN [is_empty |-> TRUE, reason |-> <<"no", "image">>]
  ELSE LET has_alpha == image.mode \in {"RGBA", "LA"}
       IN  IF has_alpha /\ image.mode = "RGBA"
           THEN IF image.non_transparent_pixels > 0
                THEN [is_empty |-> FALSE]
                ELSE [is_empty |-> TRUE, reason |-> <<"fully", "transparent">>]
           ELSE [is_empty |-> image.color_std < 1 /\ image.unique_colors <= 1,
                 reason |-> IF image.color_std < 1 THEN <<"no", "color", "variation">>
                            ELSE <<"has", "content">>]

----------------------------------------------------------------------------
(* get_layer_properties *)

(* Lines 158-165: the loop over tagged blocks; a failing block ends it. *)
RECURSIVE ScanBlocks(_, _)
ScanBlocks(blocks, text_style) ==
  IF blocks = <<>> \/ Head(blocks) = "raise" THEN text_style
  ELSE ScanBlocks(Tail(blocks),
                  CASE Head(blocks) = "TySh" -> text_style \cup {"has_engine_data"}
                    [] Head(blocks) = "tySh" -> text_style \cup {"has_alt_text_data"}
                    [] OTHER -> text_style)

(* Lines 170-222: the second try block; the first failing read ends it. *)
StyleFromAttributes(l, text_style) ==
  LET s1 == IF l.text_data = "present"
            THEN text_style \cup {"font_family", "font_size", "color"} ELSE text_style
      s2 == IF l.StyleRun = "ok"
            THEN s1 \cup {"font_family", "font_size", "color", "tracking", "leading"} ELSE s1
      s3 == IF l.ParagraphRun = "ok" THEN s2 \cup {"alignment", "justification"} ELSE s2
      s4 == IF l.Transform = "ok" THEN s3 \cup {"transform"} ELSE s3
  IN  CASE l.text_data = "raise" -> text_style
        [] l.engine_dict = "raise" -> s1
        [] l.engine_dict = "absent" -> s1
        [] l.StyleRun = "raise" -> s1
        [] l.ParagraphRun = "raise" -> s2
        [] l.Transform = "raise" -> s3
        [] OTHER -> s4

(* Line 146: hasattr(layer, 'text') and layer.text, outside any try block. *)
TextRead(l) == l.text

get_layer_properties(l) ==
  LET properties == [kind |-> l.kind]
  IN  CASE TextRead(l) = "raise" -> [raised |-> TRUE, properties |-> properties]
        [] TextRead(l) = "absent" -> [raised |-> FALSE, properties |-> properties]
        [] OTHER ->
             LET text_style == StyleFromAttributes(l, ScanBlocks(l.blocks, {}))
                 with_text == properties @@ [text |-> "value"]
             IN  [raised |-> FALSE,
                  properties |-> IF text_style # {}
                                 THEN with_text @@ [text_style |-> text_style]
                                 ELSE with_text]

----------------------------------------------------------------------------
(* export_layer: one frame per call, one step per block of the body *)

NoProperties == [none |-> TRUE]
NoDict == [none |-> TRUE]

(* Lines 231-234: the locals of a new call. *)
NewFrame(i, prefix) ==
  [ layer |-> i, prefix |-> prefix, step |-> "props",
    image |-> NoImage, extraction_method |-> <<>>,
    preview_filename |-> NoFilename, preview_status |-> <<"not", "attempted">>,
    image_analysis |-> NoAnalysis, layer_properties |-> NoProperties,
    attempts |-> <<>>, layer_dict |-> NoDict, children |-> <<>>, next_child |-> 1 ]

(* Line 318: the comprehension over the document, as the outermost frame. *)
RootFrame == [NewFrame(0, <<>>) EXCEPT !.step = "children"]

(* Variant: the exception leaves export_layer. *)
OuterExcept_Propagates(f) == [f EXCEPT !.step = "raise"]

(* Lines 293-295: the except clause around the extraction of one layer. *)
OuterExcept(f) == [f EXCEPT !.preview_status = <<"error">>, !.step = "dict"]

(* Line 235: get_layer_properties is called outside the try block. *)
PropertiesStep(f, l) ==
  LET r == get_layer_properties(l)
  IN  IF r.raised THEN [f EXCEPT !.step = "raise"]
      ELSE [f EXCEPT !.layer_properties = r.properties,
                     !.step = IF l.is_group THEN "dict" ELSE "topil"]

(* The result of one extraction call: an exception leaves image unchanged. *)
Attempt(f, method, outcome, l) ==
  LET g == [f EXCEPT !.attempts = Append(@, method)]
  IN  IF outcome = "image"
      THEN [g EXCEPT !.image = l.image, !.extraction_method = method]
      ELSE g

(* Lines 244-250 *)
TopilStep(f, l) == [Attempt(f, <<"topil">>, l.topil, l) EXCEPT !.step = "composite"]

(* Variant: composite is tried whatever topil yielded. *)
CompositeGuard_IgnoresImage(f, l) ==
  CASE l.has_pixels = "raise" -> "raise"
    [] l.has_pixels = "true" -> "try"
    [] OTHER -> "skip"

(* Line 253: not image and layer.has_pixels() *)
CompositeGuard(f, l) ==
  IF f.image # NoImage THEN "skip"
  ELSE CASE l.has_pixels = "raise" -> "raise"
         [] l.has_pixels = "true" -> "try"
         [] OTHER -> "skip"

(* Lines 253-260 *)
CompositeStep(f, l) ==
  CASE CompositeGuard(f, l) = "raise" -> OuterExcept(f)
    [] CompositeGuard(f, l) = "try" ->
         [Attempt(f, <<"composite">>, l.composite, l) EXCEPT !.step = "forced"]
    [] OTHER -> [f EXCEPT !.step = "forced"]

(* Line 263: not image and hasattr(layer, 'composite'); every psd_tools     *)
(* layer has a composite method.                                            *)
ForcedGuard(f, l) == f.image = NoImage

(* Lines 263-270 *)
ForcedStep(f, l) ==
  IF ForcedGuard(f, l)
  THEN [Attempt(f, <<"composite", "forced">>, l.forced, l) EXCEPT !.step = "save"]
  ELSE [f EXCEPT !.step = "save"]

(* Line 276 *)
PreviewFilename(prefix, name) ==
  Replace(Replace(prefix \o <<"_">> \o name \o <<".png">>, " ", "_"), "/", "-")

(* Lines 279-284 *)
StatusOfImage(image_analysis, extraction_method) ==
  IF Get(image_analysis, "is_empty", TRUE)
  THEN <<"extracted", "but", "empty">> \o Get(image_analysis, "reason", <<"unknown">>)
  ELSE <<"success">> \o extraction_method

(* Variant: the two statuses are exchanged. *)
StatusWithoutImage_Swapped(l) ==
  IF l.has_pixels = "true" THEN <<"no", "pixels">>
  ELSE <<"has", "pixels", "but", "no", "extraction">>

(* Lines 286-291 *)
StatusWithoutImage(l) ==
  IF l.has_pixels = "true" THEN <<"has", "pixels", "but", "no", "extraction">>
  ELSE <<"no", "pixels">>

(* Lines 272-291; the file written by line 277 is added by the action. *)
SaveStep(f, l) ==
  IF f.image # NoImage
  THEN IF l.analyze = "raise" THEN OuterExcept(f)
       ELSE LET g == [f EXCEPT !.image_analysis = analyze_image_content(f.image),
                               !.preview_filename = PreviewFilename(f.prefix, l.name)]
            IN  IF l.save = "raise" THEN OuterExcept(g)
                ELSE [g EXCEPT !.preview_status = StatusOfImage(g.image_analysis, g.extraction_method),
                               !.step = "dict"]
  ELSE IF l.has_pixels = "raise" THEN OuterExcept(f)
       ELSE [f EXCEPT !.preview_status = StatusWithoutImage(l), !.step = "dict"]

(* Line 277 reached and image.save returned. *)
Saved(f, l) == f.image # NoImage /\ l.analyze = "ok" /\ l.save = "ok"

(* Lines 297-309 *)
LayerDict(f, l) ==
  LET base == [id |-> l.layer_id, name |-> l.name, type |-> l.kind,
               preview_status |-> f.preview_status,
               layer_properties |-> f.layer_properties]
      with_analysis == IF f.image_analysis # NoAnalysis
                       THEN base @@ [image_analysis |-> f.image_analysis] ELSE base
  IN  IF f.preview_filename # NoFilename
      THEN with_analysis @@ [preview |-> f.preview_filename] ELSE with_analysis

(* Lines 312 and 318: the prefix handed to a child. *)
ChildPrefix(f, d, child) ==
  IF f.layer = 0 THEN d.layer[child].name
  ELSE f.prefix \o <<"_">> \o d.layer[f.layer].name

----------------------------------------------------------------------------
(* count_layers *)

(* layer.get("children") as a condition: the key is there and the list is   *)
(* not empty.                                                               *)
HasChildren(record) == Get(record, "children", <<>>) # <<>>

(* Lines 331-338 *)
CountStatus(s, status) ==
  LET t == [s EXCEPT !.total_layers = @ + 1]
  IN  IF Contains(status, "success")
      THEN IF Contains(status, "empty")
           THEN [t EXCEPT !.empty_extractions = @ + 1]
           ELSE [t EXCEPT !.successful_extractions = @ + 1]
      ELSE [t EXCEPT !.failed_extractions = @ + 1]

(* Lines 326-340 *)
RECURSIVE count_layers(_, _)
count_layers(layers, s) ==
  IF layers = <<>> THEN s
  ELSE LET layer == Head(layers)
           s1 == IF ~HasChildren(layer)
                 THEN CountStatus(s, Get(layer, "preview_status", <<>>)) ELSE s
           s2 == IF HasChildren(layer) THEN count_layers(layer.children, s1) ELSE s1
       IN  count_layers(Tail(layers), s2)

ZeroSummary == [total_layers |-> 0, successful_extractions |-> 0,
                empty_extractions |-> 0, failed_extractions |-> 0]

----------------------------------------------------------------------------
(* process_psd_file *)

Docs == FaultDocs \cup TreeDocs \cup OpenDocs

Init ==
  /\ doc \in Docs
  /\ pc = "open"
  /\ result = "none"
  /\ psd = "none"
  /\ stack = <<>>
  /\ layer_json = <<>>
  /\ previews = <<>>
  /\ summary = ZeroSummary
  /\ written = FALSE


Top == stack[Len(stack)]

TopLayer == doc.layer[Top.layer]

SetTop(f) == [stack EXCEPT ![Len(stack)] = f]

(* An exception that no except clause of process_psd_file catches. *)
Raise ==
  /\ pc' = "raised"
  /\ UNCHANGED <<doc, result, psd, stack, layer_json, previews, summary, written>>

(* Line 26: process_psd_file(psd_filename) has no parameter by which its   *)
(* caller could ask for best-effort opening.                                *)
BestEffortRequested == FALSE

(* Variant: every ValueError leads to the forced open. *)
AfterOpen_AnyValueError(outcome) ==
  CASE outcome = "ok" -> "export"
    [] outcome \in {"color_mode", "value_error"} -> "open_forced"
    [] OTHER -> "raise"

(* Lines 42-56: what follows each outcome of PSDImage.open(psd_path). *)
AfterOpen(outcome) ==
  CASE outcome = "ok" -> "export"
    [] outcome = "color_mode" -> "open_forced"
    [] outcome = "value_error" -> "fail"
    [] OTHER -> "raise"

(* Lines 29-56: the file check and PSDImage.open(psd_path). *)
Open ==
  /\ pc = "open"
  /\ IF ~doc.exists
     THEN pc' = "done" /\ result' = "False" /\ UNCHANGED <<psd, stack>>
     ELSE CASE AfterOpen(doc.open) = "export" ->
                 pc' = "export" /\ psd' = "plain" /\ stack' = <<RootFrame>> /\ UNCHANGED result
            [] AfterOpen(doc.open) = "open_forced" ->
                 pc' = "open_forced" /\ UNCHANGED <<result, psd, stack>>
            [] AfterOpen(doc.open) = "fail" ->
                 pc' = "done" /\ result' = "False" /\ UNCHANGED <<psd, stack>>
            [] OTHER ->
                 pc' = "raised" /\ UNCHANGED <<result, psd, stack>>
  /\ UNCHANGED <<doc, layer_json, previews, summary, written>>

(* Lines 48-53: PSDImage.open(psd_path, force=True). *)
OpenForced ==
  /\ pc = "open_forced"
  /\ IF doc.open_force = "ok"
     THEN pc' = "export" /\ psd' = "forced" /\ stack' = <<RootFrame>> /\ UNCHANGED result
     ELSE pc' = "done" /\ result' = "False" /\ UNCHANGED <<psd, stack>>
  /\ UNCHANGED <<doc, layer_json, previews, summary, written>>

(* The running export_layer call goes on with frame f, or its exception     *)
(* leaves process_psd_file.                                                 *)
Continue(f) ==
  IF f.step = "raise" THEN Raise
  ELSE /\ stack' = SetTop(f)
       /\ UNCHANGED <<doc, pc, result, psd, layer_json, previews, summary, written>>

(* Line 235 *)
GetLayerProperties ==
  /\ pc = "export"
  /\ Top.step = "props"
  /\ Continue(PropertiesStep(Top, TopLayer))

(* Lines 244-250 *)
Topil ==
  /\ pc = "export"
  /\ Top.step = "topil"
  /\ Continue(TopilStep(Top, TopLayer))

(* Lines 253-260 *)
Composite ==
  /\ pc = "export"
  /\ Top.step = "composite"
  /\ Continue(CompositeStep(Top, TopLayer))

(* Lines 263-270 *)
CompositeForced ==
  /\ pc = "export"
  /\ Top.step = "forced"
  /\ Continue(ForcedStep(Top, TopLayer))

(* Lines 272-291, with the file image.save writes. *)
AnalyzeAndSave ==
  /\ pc = "export"
  /\ Top.step = "save"
  /\ LET f == SaveStep(Top, TopLayer)
     IN  IF f.step = "raise" THEN Raise
         ELSE /\ stack' = SetTop(f)
              /\ previews' = IF Saved(Top, TopLayer)
                             THEN (f.preview_filename :> Top.layer) @@ previews
                             ELSE previews
              /\ UNCHANGED <<doc, pc, result, psd, layer_json, summary, written>>

(* Variant: the returned value goes to the front of the list. *)
ReturnTo_Prepend(caller, record) ==
  [caller EXCEPT !.children = <<record>> \o @, !.next_child = @ + 1]

(* The value a call returns goes to the end of the caller's list. *)
ReturnTo(caller, record) ==
  [caller EXCEPT !.children = Append(@, record), !.next_child = @ + 1]

(* Lines 297-314 for a non-group layer; lines 297-311 for a group. *)
BuildDict ==
  /\ pc = "export"
  /\ Top.step = "dict"
  /\ LET record == LayerDict(Top, TopLayer)
     IN  IF TopLayer.is_group
         THEN stack' = SetTop([Top EXCEPT !.layer_dict = record, !.step = "children"])
         ELSE stack' = [SubSeq(stack, 1, Len(stack) - 1)
                          EXCEPT ![Len(stack) - 1] = ReturnTo(@, record)]
  /\ UNCHANGED <<doc, pc, result, psd, layer_json, previews, summary, written>>

(* Lines 312 and 318: the next call of the comprehension. *)
EnterChild ==
  /\ pc = "export"
  /\ Top.step = "children"
  /\ Top.next_child <= Len(ChildrenOf(doc, Top.layer))
  /\ LET child == ChildrenOf(doc, Top.layer)[Top.next_child]
     IN  stack' = Append(stack, NewFrame(child, ChildPrefix(Top, doc, child)))
  /\ UNCHANGED <<doc, pc, result, psd, layer_json, previews, summary, written>>

(* Lines 312-314: the comprehension of a group is complete. *)
ReturnGroup ==
  /\ pc = "export"
  /\ Top.step = "children"
  /\ Top.layer # 0
  /\ Top.next_child > Len(ChildrenOf(doc, Top.layer))
  /\ stack' = [SubSeq(stack, 1, Len(stack) - 1)
                 EXCEPT ![Len(stack) - 1] =
                   ReturnTo(@, Top.layer_dict @@ [children |-> Top.children])]
  /\ UNCHANGED <<doc, pc, result, psd, layer_json, previews, summary, written>>

(* Line 318: the comprehension over the document is complete. *)
FinishExport ==
  /\ pc = "export"
  /\ Top.step = "children"
  /\ Top.layer = 0
  /\ Top.next_child > Len(ChildrenOf(doc, 0))
  /\ layer_json' = Top.children
  /\ stack' = <<>>
  /\ pc' = "count"
  /\ UNCHANGED <<doc, result, psd, previews, summary, written>>

(* Lines 321-342 *)
CountLayers ==
  /\ pc = "count"
  /\ summary' = count_layers(layer_json, ZeroSummary)
  /\ pc' = "write"
  /\ UNCHANGED <<doc, result, psd, stack, layer_json, previews, written>>

(* Lines 345-369 *)
WriteJson ==
  /\ pc = "write"
  /\ written' = TRUE
  /\ result' = "True"
  /\ pc' = "done"
  /\ UNCHANGED <<doc, psd, stack, layer_json, previews, summary>>

Next ==
  \/ Open
  \/ OpenForced
  \/ GetLayerProperties
  \/ Topil
  \/ Composite
  \/ CompositeForced
  \/ AnalyzeAndSave
  \/ BuildDict
  \/ EnterChild
  \/ ReturnGroup
  \/ FinishExport
  \/ CountLayers
  \/ WriteJson

Spec == Init /\ [][Next]_vars

----------------------------------------------------------------------------
(* Properties *)

(* Every record of a list of records, parents before children. *)
RECURSIVE Flatten(_)
Flatten(records) ==
  IF records = <<>> THEN <<>>
  ELSE <<Head(records)>>
       \o (IF "children" \in DOMAIN Head(records) THEN Flatten(Head(records).children) ELSE <<>>)
       \o Flatten(Tail(records))

AllRecords == Flatten(layer_json)

Indexes(P(_)) == { k \in 1..Len(AllRecords) : P(AllRecords[k]) }

ExtractionSteps == {"topil", "composite", "forced", "save"}

(* The layers at which a call listed by the claim fails. *)
FailingLayers ==
  { i \in 1..doc.n : /\ ~doc.layer[i].is_group
                     /\ \/ doc.layer[i].topil = "raise"
                        \/ doc.layer[i].has_pixels = "raise"
                        \/ doc.layer[i].composite = "raise"
                        \/ doc.layer[i].forced = "raise"
                        \/ doc.layer[i].analyze = "raise"
                        \/ doc.layer[i].save = "raise" }

NoTextReadFails == \A i \in 1..doc.n : doc.layer[i].text # "raise"

(* C1: a failure of topil, composite, forced composite, has_pixels, content *)
(* analysis or saving at one layer never leaves export_layer: no run ends   *)
(* with an exception raised at an extraction step, and every run on an      *)
(* opened document in which only such calls fail ends by writing            *)
(* layer_structure.json, returning True, with one record per layer of the   *)
(* document (siblings, ancestors and descendants of siblings included).     *)
C1_FailureIsolation ==
  /\ (pc = "raised" /\ stack # <<>>) => Top.step \notin ExtractionSteps
  /\ (pc \in {"done", "raised"} /\ psd # "none" /\ NoTextReadFails) =>
       /\ pc = "done"
       /\ result = "True"
       /\ written
       /\ Len(AllRecords) = doc.n
       /\ { AllRecords[k].id : k \in 1..Len(AllRecords) } = 1..doc.n

(* C1 witness: a finished run in which a layer inside a group failed in its *)
(* extraction and was recorded as "error", and the records of its group and *)
(* of the sibling exported after it are there.                              *)
C1_Witness ==
  /\ pc = "done" /\ result = "True" /\ written
  /\ \E i \in FailingLayers : \E sibling \in 1..doc.n :
       /\ doc.parent[i] # 0
       /\ sibling > i /\ doc.parent[sibling] = doc.parent[i]
       /\ \E k \in 1..Len(AllRecords) :
            AllRecords[k].id = i /\ AllRecords[k].preview_status = <<"error">>
       /\ \E k \in 1..Len(AllRecords) :
            AllRecords[k].id = sibling /\ AllRecords[k].preview_status = <<"success", "topil">>
       /\ \E k \in 1..Len(AllRecords) :
            AllRecords[k].id = doc.parent[i] /\ Len(AllRecords[k].children) = 2

IsLeafAtDict(f) == f.layer # 0 /\ f.step = "dict" /\ ~doc.layer[f.layer].is_group

(* C2 as stated: a non-group layer without pixel data always ends with      *)
(* "no_pixels" and without preview or image_analysis (here: whenever none   *)
(* of its steps raised into the outer except clause).                       *)
C2_NoPixelsAlways ==
  (pc = "export" /\ IsLeafAtDict(Top) /\ TopLayer.has_pixels = "false"
     /\ Top.preview_status # <<"error">>) =>
     /\ Top.preview_status = <<"no", "pixels">>
     /\ Top.preview_filename = NoFilename
     /\ Top.image_analysis = NoAnalysis

(* C2 amended: a non-group layer without pixel data from which no method    *)
(* yielded an image ends with "no_pixels" and without preview or            *)
(* image_analysis; "no_pixels" is reported only for a layer without pixel   *)
(* data from which no image was extracted, and extracted_but_empty only for *)
(* a layer from which an image was extracted.                               *)
C2_NoPixelsWhenNothingExtracted ==
  (pc = "export" /\ IsLeafAtDict(Top)) =>
     /\ (TopLayer.has_pixels = "false" /\ Top.image = NoImage) =>
          /\ Top.preview_status = <<"no", "pixels">>
          /\ Top.preview_filename = NoFilename
          /\ Top.image_analysis = NoAnalysis
     /\ (Top.preview_status = <<"no", "pixels">>) =>
          (Top.image = NoImage /\ TopLayer.has_pixels = "false")
     /\ (Top.preview_status[1] = "extracted") => Top.image # NoImage

(* C2 witness: a layer without pixel data on which topil and the forced     *)
(* composite were tried and yielded nothing, reported as "no_pixels".       *)
C2_Witness ==
  /\ pc = "export" /\ IsLeafAtDict(Top)
  /\ TopLayer.has_pixels = "false"
  /\ Top.attempts = << <<"topil">>, <<"composite", "forced">> >>
  /\ Top.preview_status = <<"no", "pixels">>

(* C3 as stated: a document with an invalid color mode fails the run unless *)
(* the caller requested best-effort mode, and the forced open happens only  *)
(* on such a request.                                                       *)
C3_InvalidColorModeFails ==
  /\ (psd = "forced") => BestEffortRequested
  /\ (pc = "done" /\ doc.exists /\ doc.open = "color_mode" /\ ~BestEffortRequested) =>
       (result = "False" /\ layer_json = <<>>)

(* C3 amended: on an invalid color mode process_psd_file itself retries     *)
(* with force=True, without any request of its caller; the forced open is   *)
(* made only after that error; the run fails (returns False, nothing        *)
(* exported) exactly when the forced open fails too, and otherwise exports  *)
(* the layers as for a valid document.                                      *)
C3_BestEffortAutomatic ==
  /\ (psd = "forced" \/ pc = "open_forced") => (doc.exists /\ doc.open = "color_mode")
  /\ (psd = "forced") => doc.open_force = "ok"
  /\ (pc = "done" /\ doc.exists /\ doc.open = "color_mode") =>
       IF doc.open_force = "ok"
       THEN /\ psd = "forced" /\ result = "True" /\ written
            /\ Len(AllRecords) = doc.n
            /\ \A k \in 1..Len(AllRecords) :
                 doc.layer[AllRecords[k].id].is_group
                   \/ AllRecords[k].preview_status = <<"success", "topil">>
       ELSE /\ psd = "none" /\ result = "False" /\ ~written
            /\ layer_json = <<>> /\ DOMAIN previews = {}

(* C3 witness: a finished run that opened the document with force=True and  *)
(* exported a group and its layer.                                          *)
C3_Witness ==
  /\ pc = "done" /\ psd = "forced" /\ result = "True"
  /\ \E k \in 1..Len(layer_json) :
       /\ "children" \in DOMAIN layer_json[k]
       /\ \E c \in 1..Len(layer_json[k].children) :
            "preview" \in DOMAIN layer_json[k].children[c]

(* The records mirror the children of layer i of the document. *)
RECURSIVE Mirrors(_, _)
Mirrors(records, i) ==
  /\ Len(records) = Len(ChildrenOf(doc, i))
  /\ \A k \in 1..Len(records) :
       LET child == ChildrenOf(doc, i)[k]
           l == doc.layer[child]
           r == records[k]
       IN  /\ r.id = l.layer_id
           /\ r.name = l.name
           /\ ("children" \in DOMAIN r) <=> l.is_group
           /\ l.is_group => Mirrors(r.children, child)

(* C4: the emitted tree mirrors the document: "layers" has one record per   *)
(* top-level layer in iteration order, "children" of a group record has one *)
(* record per child in iteration order, only group records have "children", *)
(* and each record carries the id and name of the layer at its position.    *)
C4_TreeMirrored == (pc \in {"count", "write", "done"} /\ psd # "none") => Mirrors(layer_json, 0)

(* C4 witness: a written tree with a group of two children. *)
C4_Witness ==
  /\ written
  /\ \E k \in 1..Len(layer_json) :
       "children" \in DOMAIN layer_json[k] /\ Len(layer_json[k].children) = 2

(* C5: total_layers is the number of non-group layers of the document. *)
C5_TotalCountsNonGroupLayers ==
  written => summary.total_layers = Cardinality({ i \in 1..doc.n : ~doc.layer[i].is_group })

IsCounted(r) == ~HasChildren(r)

IsSuccessRecord(r) == IsCounted(r) /\ r.preview_status[1] = "success"

IsEmptyRecord(r) == IsCounted(r) /\ r.preview_status[1] = "extracted"

(* C6: among the counted records, those with status success_<method> are    *)
(* counted in successful_extractions, those with status                     *)
(* extracted_but_empty_<reason> in empty_extractions, all others in         *)
(* failed_extractions.                                                      *)
C6_CountersClassifyOutcomes ==
  written =>
    /\ summary.successful_extractions = Cardinality(Indexes(IsSuccessRecord))
    /\ summary.empty_extractions = Cardinality(Indexes(IsEmptyRecord))
    /\ summary.failed_extractions =
         Cardinality(Indexes(IsCounted)) - Cardinality(Indexes(IsSuccessRecord))
           - Cardinality(Indexes(IsEmptyRecord))

(* C7: no failure of reading the text data of a layer leaves                *)
(* get_layer_properties: no run ends with an exception raised there.        *)
C7_TextErrorsContained == ~(pc = "raised" /\ stack # <<>> /\ Top.step = "props")

(* What the call of a method yields on a layer. *)
Outcome(l, method) ==
  CASE method = <<"topil">> -> l.topil
    [] method = <<"composite">> -> l.composite
    [] OTHER -> l.forced

IsSubsequence(a, b) ==
  \E pos \in [1..Len(a) -> 1..Len(b)] :
    /\ \A k \in 1..Len(a) : a[k] = b[pos[k]]
    /\ \A j, k \in 1..Len(a) : j < k => pos[j] < pos[k]

(* C8: in every export_layer call on a non-group layer, topil is attempted  *)
(* first, composite only after topil yielded no image on a layer that has   *)
(* pixels, the forced composite only if nothing yielded an image before,    *)
(* nothing after a method yielded an image, each method at most once, and a *)
(* success status names the method that yielded the image.                  *)
C8_FallbackOrder ==
  \A n \in 1..Len(stack) :
    LET f == stack[n]
        l == doc.layer[f.layer]
        methods == << <<"topil">>, <<"composite">>, <<"composite", "forced">> >>
    IN  (f.layer # 0 /\ ~l.is_group) =>
          /\ IsSubsequence(f.attempts, methods)
          /\ (f.step \in {"composite", "forced", "save", "dict"}) =>
               (f.attempts # <<>> /\ f.attempts[1] = <<"topil">>)
          /\ (\E k \in 1..Len(f.attempts) : f.attempts[k] = <<"composite">>) =>
               (l.topil # "image" /\ l.has_pixels = "true")
          /\ \A k \in 1..Len(f.attempts) - 1 : Outcome(l, f.attempts[k]) # "image"
          /\ (f.image # NoImage) =>
               /\ Outcome(l, f.attempts[Len(f.attempts)]) = "image"
               /\ f.extraction_method = f.attempts[Len(f.attempts)]
          /\ (f.preview_status[1] = "success") =>
               /\ f.image # NoImage
               /\ f.preview_status = <<"success">> \o f.attempts[Len(f.attempts)]

(* C8 witness: all three methods were attempted in turn and the status      *)
(* names the forced composite.                                              *)
C8_Witness ==
  /\ pc = "export" /\ IsLeafAtDict(Top)
  /\ Top.attempts = << <<"topil">>, <<"composite">>, <<"composite", "forced">> >>
  /\ Top.preview_status = <<"success", "composite", "forced">>

(* C9: a record has "preview" and "image_analysis" exactly when its status  *)
(* is success_<method> or extracted_but_empty_<reason>, and then the file   *)
(* was saved.                                                               *)
C9_StatusAndPreviewAgree ==
  \A k \in 1..Len(AllRecords) :
    LET r == AllRecords[k]
        extracted == r.preview_status[1] \in {"success", "extracted"}
    IN  /\ ("preview" \in DOMAIN r) <=> extracted
        /\ ("image_analysis" \in DOMAIN r) <=> extracted
        /\ ("preview" \in DOMAIN r) => r.preview \in DOMAIN previews

(* C10: two layers of one document never receive the same preview filename, *)
(* so every "preview" names a file holding that layer's own image.          *)
C10_PreviewsNotOverwritten ==
  /\ \A j, k \in 1..Len(AllRecords) :
       (j # k /\ "preview" \in DOMAIN AllRecords[j] /\ "preview" \in DOMAIN AllRecords[k])
         => AllRecords[j].preview # AllRecords[k].preview
  /\ written =>
       \A k \in 1..Len(AllRecords) :
         ("preview" \in DOMAIN AllRecords[k] /\ AllRecords[k].preview \in DOMAIN previews)
           => previews[AllRecords[k].preview] = AllRecords[k].id
====
